---- MODULE Spec2Model ----
(***************************************************************************)
(* The tool-invocation adapters of the MCP travel servers:                 *)
(*   ext    mcp_http_server.py          (extended HTTP server, 8 tools)    *)
(*   min    mcp_http_server_minimal.py  (minimal HTTP server, 5 tools)     *)
(*   stdio  mcp_server.py               (stdio server, 4 tools)            *)
(* An invocation is received, looked up in the entry point's registry,     *)
(* validated, makes its collaborator calls one at a time, formats the      *)
(* collaborators' results and ends with a result.                          *)
(***************************************************************************)
EXTENDS Integers, Sequences, FiniteSets, TLC

\* ------------------------------------------------------------------ bounds
\* number of invocations that can be in flight at the same time
MaxInv == 1
\* largest number of records a list-returning collaborator returns
MaxRecords == 5
\* largest value of the days argument a client sends
MaxDays == 3

Slots == 1..MaxInv

EntryPoints == {"ext", "min", "stdio"}

\* --------------------------------------------------------------- registries
\* the tools each entry point registers, in registration order
\* RegistryExt with a health_check tool registered, as the minimal server has
RegistryExtWithHealthCheck ==
  << "validate", "health_check", "plan_trip", "get_weather",
     "search_hotel_options", "search_flight_options", "discover_places",
     "find_restaurants", "check_travel_requirements" >>

RegistryExt ==
  << "validate", "plan_trip", "get_weather", "search_hotel_options",
     "search_flight_options", "discover_places", "find_restaurants",
     "check_travel_requirements" >>

\* RegistryMin with a second handler registered under the name get_weather
RegistryMinRepeatsGetWeather ==
  << "health_check", "get_weather", "get_weather", "find_restaurants",
     "check_travel_requirements" >>

RegistryMin ==
  << "health_check", "get_weather", "discover_places", "find_restaurants",
     "check_travel_requirements" >>

RegistryStdio ==
  << "get_weather", "discover_places", "find_restaurants",
     "check_travel_requirements" >>

Registry(ep) ==
  CASE ep = "ext" -> RegistryExt
    [] ep = "min" -> RegistryMin
    [] ep = "stdio" -> RegistryStdio

Range(s) == { s[k] : k \in 1..Len(s) }

Registered(ep) == Range(Registry(ep))

\* the tool names a client may put in a request: every name some entry point
\* registers, and one that none does
RequestedNames ==
  Registered("ext") \cup Registered("min") \cup Registered("stdio")
    \cup {"no_such_tool"}

\* -------------------------------------------------------- declared schemas
\* parameters without a default in the handler's signature
RequiredExt(tool) ==
  CASE tool = "plan_trip" -> {"origin", "destination", "start_date", "end_date"}
    [] tool = "get_weather" -> {"location"}
    [] tool = "search_hotel_options" -> {"destination", "check_in", "check_out"}
    [] tool = "search_flight_options" -> {"origin", "destination", "departure_date"}
    [] tool = "discover_places" -> {"destination"}
    [] tool = "find_restaurants" -> {"destination"}
    [] tool = "check_travel_requirements" -> {"origin_country", "destination_country"}
    [] OTHER -> {}

\* parameters with a default in the handler's signature
OptionalExt(tool) ==
  CASE tool = "plan_trip" ->
         {"adults", "budget", "activities", "accommodation_type",
          "dietary_restrictions"}
    [] tool = "get_weather" -> {"days"}
    [] tool = "search_hotel_options" -> {"adults", "min_rating", "accommodation_type"}
    [] tool = "search_flight_options" -> {"return_date", "adults", "cabin_class"}
    [] tool = "discover_places" -> {"activity_type", "limit"}
    [] tool = "find_restaurants" ->
         {"cuisine_types", "dietary_restrictions", "price_range"}
    [] OTHER -> {}

\* parameters whose default is a list literal in the handler's signature:
\* the list is built once, when the def statement runs
ListDefaults(ep, tool) ==
  CASE ep = "ext" /\ tool = "plan_trip" -> {"activities", "dietary_restrictions"}
    [] ep = "ext" /\ tool = "find_restaurants" ->
         {"cuisine_types", "dietary_restrictions"}
    [] OTHER -> {}

RequiredMin(tool) ==
  CASE tool = "get_weather" -> {"location"}
    [] tool = "discover_places" -> {"destination"}
    [] tool = "find_restaurants" -> {"location"}
    [] tool = "check_travel_requirements" -> {"destination_country", "origin_country"}
    [] OTHER -> {}

OptionalMin(tool) ==
  CASE tool = "discover_places" -> {"category"}
    [] tool = "find_restaurants" -> {"cuisine_type", "price_range"}
    [] OTHER -> {}

\* the "required" list of the tool's input_schema
RequiredStdio(tool) ==
  CASE tool = "get_weather" -> {"location"}
    [] tool = "discover_places" -> {"destination"}
    [] tool = "find_restaurants" -> {"location"}
    [] tool = "check_travel_requirements" -> {"destination_country", "origin_country"}
    [] OTHER -> {}

\* the other "properties" of the tool's input_schema
OptionalStdio(tool) ==
  CASE tool = "discover_places" -> {"category"}
    [] tool = "find_restaurants" -> {"cuisine_type", "price_range"}
    [] OTHER -> {}

Required(ep, tool) ==
  CASE ep = "ext" -> RequiredExt(tool)
    [] ep = "min" -> RequiredMin(tool)
    [] ep = "stdio" -> RequiredStdio(tool)

Optional(ep, tool) ==
  CASE ep = "ext" -> OptionalExt(tool)
    [] ep = "min" -> OptionalMin(tool)
    [] ep = "stdio" -> OptionalStdio(tool)

Declared(ep, tool) == Required(ep, tool) \cup Optional(ep, tool)

\* ------------------------------------------------------ collaborator calls
\* A call site: the collaborator, the sources of its positional arguments,
\* the keyword parameters it passes as <<parameter name, source>> pairs, and
\* the keys it reads by subscript from the argument mapping (a subscript of
\* an absent key raises KeyError while the call's arguments are evaluated).
CallSite(collab, pos, kw, subscripts) ==
  [collab |-> collab, pos |-> pos, kw |-> kw, subscripts |-> subscripts]

ExtCalls(tool) ==
  CASE tool = "plan_trip" ->
         << CallSite("generate_itinerary", <<"trip_payload">>, {}, {}) >>
    [] tool = "get_weather" ->
         << CallSite("get_forecast", <<"location">>, {}, {}) >>
    [] tool = "search_hotel_options" ->
         << CallSite("search_hotels", <<>>,
              { <<"destination", "destination">>, <<"check_in", "check_in">>,
                <<"check_out", "check_out">>, <<"adults", "adults">>,
                <<"min_rating", "min_rating">>,
                <<"accommodation_type", "accommodation_type">> }, {}) >>
    [] tool = "search_flight_options" ->
         << CallSite("search_flights", <<>>,
              { <<"origin", "origin">>, <<"destination", "destination">>,
                <<"departure_date", "departure_date">>, <<"adults", "adults">>,
                <<"cabin_class", "cabin_class">> }, {}) >>
    [] tool = "discover_places" ->
         << CallSite("search_places", <<"query">>, {}, {}) >>
    [] tool = "find_restaurants" ->
         << CallSite("search_restaurants", <<>>,
              { <<"city", "destination">>, <<"cuisine_types", "cuisine_types">>,
                <<"price_range", "price_range">>,
                <<"dietary_restrictions", "dietary_restrictions">> }, {}) >>
    [] tool = "check_travel_requirements" ->
         << CallSite("check_visa_requirements",
              <<"origin_country", "destination_country">>, {}, {}),
            CallSite("get_safety_advisories", <<"destination_country">>, {}, {}) >>
    [] OTHER -> << >>

MinCalls(tool) ==
  CASE tool = "get_weather" ->
         << CallSite("get_forecast", <<"location">>, {}, {}) >>
    [] tool = "discover_places" ->
         << CallSite("search_places", <<>>,
              { <<"location", "destination">>,
                <<"category", "category or tourist_attraction">> }, {}) >>
    [] tool = "find_restaurants" ->
         << CallSite("search_restaurants", <<>>,
              { <<"location", "location">>, <<"cuisine", "cuisine_type">>,
                <<"price_range", "price_range">> }, {}) >>
    [] tool = "check_travel_requirements" ->
         << CallSite("check_visa_requirements",
              <<"origin_country", "destination_country">>, {}, {}),
            CallSite("get_safety_advisories", <<"destination_country">>, {}, {}) >>
    [] OTHER -> << >>

\* StdioCalls with the safety call of check_travel_requirements made first
StdioCallsSafetyFirst(tool) ==
  IF tool = "check_travel_requirements"
    THEN << CallSite("get_safety_advisories", <<"destination_country">>, {},
              {"destination_country"}),
            CallSite("check_visa_requirements",
              <<"origin_country", "destination_country">>, {},
              {"origin_country", "destination_country"}) >>
    ELSE << CallSite("get_forecast", <<"location">>, {}, {"location"}) >>

StdioCalls(tool) ==
  CASE tool = "get_weather" ->
         << CallSite("get_forecast", <<"location">>, {}, {"location"}) >>
    [] tool = "discover_places" ->
         << CallSite("search_places", <<>>,
              { <<"location", "destination">>,
                <<"category", "category, default tourist_attraction">> },
              {"destination"}) >>
    [] tool = "find_restaurants" ->
         << CallSite("search_restaurants", <<>>,
              { <<"location", "location">>, <<"cuisine", "cuisine_type">>,
                <<"price_range", "price_range">> }, {"location"}) >>
    [] tool = "check_travel_requirements" ->
         << CallSite("check_visa_requirements",
              <<"origin_country", "destination_country">>, {},
              {"origin_country", "destination_country"}),
            CallSite("get_safety_advisories", <<"destination_country">>, {},
              {"destination_country"}) >>
    [] OTHER -> << >>

Calls(ep, tool) ==
  CASE ep = "ext" -> ExtCalls(tool)
    [] ep = "min" -> MinCalls(tool)
    [] ep = "stdio" -> StdioCalls(tool)

KwNames(site) == { p[1] : p \in site.kw }

\* ------------------------------------------------- collaborator signatures
\* The parameter lists the repository documents for its collaborators:
\*   search_flights(origin, destination, date, adults=1, cabin_class...)
\*   search_hotels(location, check_in, check_out, adults=1, min_rating...,
\*                 accommodation_type...)
\* The other collaborators' parameter lists are not stated anywhere in the
\* sources; a call to one of them binds whatever it passes.
KnownSignature(collab) == collab \in {"search_flights", "search_hotels"}

SignatureParams(collab) ==
  CASE collab = "search_flights" ->
         <<"origin", "destination", "date", "adults", "cabin_class">>
    [] collab = "search_hotels" ->
         <<"location", "check_in", "check_out", "adults", "min_rating",
           "accommodation_type">>
    [] OTHER -> << >>

\* how many leading parameters have no default
SignatureRequired(collab) ==
  CASE collab = "search_flights" -> 3
    [] collab = "search_hotels" -> 3
    [] OTHER -> 0

\* Python's binding of a call's arguments to the callee's parameters: every
\* keyword is a parameter, no parameter is given twice, and every parameter
\* without a default is given.
Bindable(site) ==
  KnownSignature(site.collab) =>
    LET ps == SignatureParams(site.collab)
    IN  /\ Len(site.pos) <= Len(ps)
        /\ KwNames(site) \subseteq Range(ps)
        /\ \A k \in 1..Len(site.pos) : ps[k] \notin KwNames(site)
        /\ \A k \in 1..SignatureRequired(site.collab) :
             k <= Len(site.pos) \/ ps[k] \in KwNames(site)

\* the text of the TypeError an unbindable call raises
BindErrorText(site) ==
  LET ps == SignatureParams(site.collab)
      bad == KwNames(site) \ Range(ps)
  IN  IF bad # {}
        THEN << site.collab, "got", "an", "unexpected", "keyword", "argument",
                CHOOSE n \in bad : TRUE >>
        ELSE << site.collab, "missing", "required", "argument" >>

\* ------------------------------------------------------------ error labels
\* the fixed text each handler puts before the cause in its McpError
ErrorLabelExt(tool) ==
  CASE tool = "plan_trip" -> <<"Trip", "planning", "failed:">>
    [] tool = "get_weather" -> <<"Weather", "lookup", "failed:">>
    [] tool = "search_hotel_options" -> <<"Hotel", "search", "failed:">>
    [] tool = "search_flight_options" -> <<"Flight", "search", "failed:">>
    [] tool = "discover_places" -> <<"Places", "search", "failed:">>
    [] tool = "find_restaurants" -> <<"Restaurant", "search", "failed:">>
    [] tool = "check_travel_requirements" ->
         <<"Travel", "requirements", "check", "failed:">>
    [] OTHER -> << >>

ErrorLabelMin(tool) ==
  CASE tool = "get_weather" -> <<"Weather", "forecast", "failed:">>
    [] tool = "discover_places" -> <<"Places", "search", "failed:">>
    [] tool = "find_restaurants" -> <<"Restaurant", "search", "failed:">>
    [] tool = "check_travel_requirements" ->
         <<"Travel", "requirements", "check", "failed:">>
    [] OTHER -> << >>

\* ------------------------------------------------------ collaborator data
\* A visa record and a safety record, by the keys the handlers read; "absent"
\* is a key the record does not have.
EmptyVisa == [required |-> "absent", visa_required |-> "absent"]

VisaRecords ==
  { EmptyVisa,
    [required |-> "true", visa_required |-> "absent"],
    [required |-> "false", visa_required |-> "absent"],
    [required |-> "absent", visa_required |-> "yes"],
    [required |-> "absent", visa_required |-> "no"] }

EmptySafety == [level |-> "absent", advisory_level |-> "absent"]

SafetyRecords ==
  { EmptySafety,
    [level |-> "High", advisory_level |-> "absent"],
    [level |-> "absent", advisory_level |-> "High"] }

\* Python truthiness of a dict: it has a key
VisaTruthy(v) == v # EmptyVisa

SafetyTruthy(s) == s # EmptySafety

\* What the collaborators of one invocation returned: the shape ("list" or
\* "dict") and the number n of records of a list-like result, whose records
\* are named 1..n in the collaborator's order; the visa and safety records.
NoData == [shape |-> "none", n |-> 0, visa |-> EmptyVisa, safety |-> EmptySafety]

\* the results a stub of the collaborator may return
Returns(collab) ==
  CASE collab = "get_forecast" ->
         [shape : {"list", "dict"}, n : 0..MaxRecords,
          visa : {EmptyVisa}, safety : {EmptySafety}]
    [] collab \in {"search_places", "search_restaurants", "search_hotels",
                   "search_flights"} ->
         [shape : {"list"}, n : 0..MaxRecords,
          visa : {EmptyVisa}, safety : {EmptySafety}]
    [] collab = "generate_itinerary" ->
         [shape : {"dict"}, n : 0..MaxRecords,
          visa : {EmptyVisa}, safety : {EmptySafety}]
    [] collab = "check_visa_requirements" ->
         [shape : {"dict"}, n : {0}, visa : VisaRecords, safety : {EmptySafety}]
    [] collab = "get_safety_advisories" ->
         [shape : {"dict"}, n : {0}, visa : {EmptyVisa}, safety : SafetyRecords]

\* what an invocation holds after one more collaborator returned d
Merge(data, collab, d) ==
  CASE collab = "check_visa_requirements" -> [data EXCEPT !.shape = "dict", !.visa = d.visa]
    [] collab = "get_safety_advisories" -> [data EXCEPT !.shape = "dict", !.safety = d.safety]
    [] OTHER -> [data EXCEPT !.shape = d.shape, !.n = d.n]

\* the text of the exception a failing collaborator raises
Causes == { <<"connection", "refused">> }

\* ------------------------------------------------------------------ results
NoResult ==
  [status |-> "none", kind |-> "", msg |-> << >>, form |-> "", marker |-> "",
   entries |-> << >>, sections |-> {}, visa |-> "", level |-> "",
   visaRec |-> EmptyVisa, safetyRec |-> EmptySafety]

\* an error envelope: McpError(ErrorData(code, message))
Failure(kind, msg) == [NoResult EXCEPT !.status = "Failure", !.kind = kind, !.msg = msg]

\* an exception that leaves the handler as it was raised
Raw(kind, msg) == [NoResult EXCEPT !.status = "Raw", !.kind = kind, !.msg = msg]

\* pre-rendered text listing the records named in entries
Text(entries) ==
  [NoResult EXCEPT !.status = "Success", !.form = "text", !.marker = "none",
                   !.entries = entries]

\* the text a handler returns for an empty result
NoResultsText ==
  [NoResult EXCEPT !.status = "Success", !.form = "text", !.marker = "no_results"]

\* json.dumps of the collaborator's result
Json(entries) ==
  [NoResult EXCEPT !.status = "Success", !.form = "json", !.marker = "none",
                   !.entries = entries]

Min2(a, b) == IF a <= b THEN a ELSE b

Max2(a, b) == IF a >= b THEN a ELSE b

\* the records 1..c
FirstN(c) == [j \in 1..c |-> j]

\* Python's s[:k] of a list s of n records
PySlice(n, k) == FirstN(IF k >= 0 THEN Min2(k, n) ELSE Max2(n + k, 0))

\* --------------------------------------------------------------- constants
\* defaults and list caps of the extended server
DefaultDays == 5
DefaultLimit == 10
ExtHotelCap == 8
ExtFlightCap == 6
ExtRestaurantCap == 10
PlanTripFlightCap == 3
\* list caps of the minimal server
MinDailyCap == 7
MinPlacesCap == 8
MinRestaurantCap == 8

\* ------------------------------------------------ extended server handlers
\* except Exception as e: raise McpError(ErrorData(INTERNAL_ERROR, label + str(e)))
ExtRaise(tool, cause) == Failure("InternalError", ErrorLabelExt(tool) \o cause)

\* ExtGetWeather slicing by the default instead of the days argument
ExtGetWeatherIgnoresDays(args, data) ==
  IF data.n = 0 THEN NoResultsText
  ELSE IF data.shape # "list"
    THEN ExtRaise("get_weather", <<"unhashable", "type:", "'slice'">>)
    ELSE Text(PySlice(data.n, DefaultDays))

ExtGetWeather(args, data) ==
  LET days == IF "days" \in args.has THEN args.num ELSE DefaultDays
  IN  IF data.n = 0 THEN NoResultsText
      ELSE IF data.shape # "list"
        THEN ExtRaise("get_weather", <<"unhashable", "type:", "'slice'">>)
        ELSE Text(PySlice(data.n, days))

ExtSearchHotelOptions(args, data) ==
  IF data.n = 0 THEN NoResultsText ELSE Text(PySlice(data.n, ExtHotelCap))

ExtSearchFlightOptions(args, data) ==
  IF data.n = 0 THEN NoResultsText ELSE Text(PySlice(data.n, ExtFlightCap))

ExtDiscoverPlaces(args, data) ==
  LET limit == IF "limit" \in args.has THEN args.num ELSE DefaultLimit
  IN  IF data.n = 0 THEN NoResultsText ELSE Text(PySlice(data.n, limit))

ExtFindRestaurants(args, data) ==
  IF data.n = 0 THEN NoResultsText ELSE Text(PySlice(data.n, ExtRestaurantCap))

ExtPlanTrip(args, data) == Text(PySlice(data.n, PlanTripFlightCap))

ExtCheckTravelRequirements(args, data) ==
  [Text(<< >>) EXCEPT
     !.sections = (IF VisaTruthy(data.visa) THEN {"visa"} ELSE {})
                    \cup (IF SafetyTruthy(data.safety) THEN {"safety"} ELSE {}),
     !.visa = IF ~VisaTruthy(data.visa) THEN ""
              ELSE IF data.visa.required = "true" THEN "required"
              ELSE "not_required",
     !.level = IF ~SafetyTruthy(data.safety) THEN ""
               ELSE IF data.safety.level # "absent" THEN data.safety.level
               ELSE "Standard precautions"]

ExtFormat(tool, args, data) ==
  CASE tool = "get_weather" -> ExtGetWeather(args, data)
    [] tool = "search_hotel_options" -> ExtSearchHotelOptions(args, data)
    [] tool = "search_flight_options" -> ExtSearchFlightOptions(args, data)
    [] tool = "discover_places" -> ExtDiscoverPlaces(args, data)
    [] tool = "find_restaurants" -> ExtFindRestaurants(args, data)
    [] tool = "plan_trip" -> ExtPlanTrip(args, data)
    [] tool = "check_travel_requirements" -> ExtCheckTravelRequirements(args, data)
    [] OTHER -> Text(<< >>)

\* ------------------------------------------------- minimal server handlers
MinRaise(tool, cause) == Failure("InternalError", ErrorLabelMin(tool) \o cause)

MinGetWeather(args, data) ==
  IF data.n = 0 THEN NoResultsText
  ELSE IF data.shape # "dict"
    THEN MinRaise("get_weather",
                  <<"'list'", "object", "has", "no", "attribute", "'get'">>)
    ELSE Text(PySlice(data.n, MinDailyCap))

MinDiscoverPlaces(args, data) ==
  IF data.n = 0 THEN NoResultsText ELSE Text(PySlice(data.n, MinPlacesCap))

MinFindRestaurants(args, data) ==
  IF data.n = 0 THEN NoResultsText ELSE Text(PySlice(data.n, MinRestaurantCap))

MinCheckTravelRequirements(args, data) ==
  LET vr == IF data.visa.visa_required # "absent"
              THEN data.visa.visa_required ELSE "Unknown"
  IN  [Text(<< >>) EXCEPT
         !.sections = (IF VisaTruthy(data.visa) THEN {"visa"} ELSE {})
                        \cup (IF SafetyTruthy(data.safety) THEN {"safety"} ELSE {}),
         !.visa = IF ~VisaTruthy(data.visa) THEN ""
                  ELSE IF vr = "no" THEN "not_required"
                  ELSE IF vr = "yes" THEN "required"
                  ELSE vr,
         !.level = IF ~SafetyTruthy(data.safety) THEN ""
                   ELSE IF data.safety.advisory_level # "absent"
                     THEN data.safety.advisory_level
                   ELSE ""]

MinFormat(tool, args, data) ==
  CASE tool = "get_weather" -> MinGetWeather(args, data)
    [] tool = "discover_places" -> MinDiscoverPlaces(args, data)
    [] tool = "find_restaurants" -> MinFindRestaurants(args, data)
    [] tool = "check_travel_requirements" -> MinCheckTravelRequirements(args, data)
    [] OTHER -> Text(<< >>)

\* --------------------------------------------------- stdio server handlers
\* no handler of the stdio server catches anything
StdioRaise(kind, cause) == Raw(kind, cause)

\* _json_content(payload): the collaborator's result, JSON-encoded
StdioJsonContent(data) == Json(FirstN(data.n))

StdioCheckTravelRequirements(args, data) ==
  [Json(<< >>) EXCEPT !.sections = {"visa", "safety"},
                      !.visaRec = data.visa, !.safetyRec = data.safety]

StdioFormat(tool, args, data) ==
  CASE tool = "check_travel_requirements" -> StdioCheckTravelRequirements(args, data)
    [] OTHER -> StdioJsonContent(data)

\* ------------------------------------------------------------ all handlers
Format(ep, tool, args, data) ==
  CASE ep = "ext" -> ExtFormat(tool, args, data)
    [] ep = "min" -> MinFormat(tool, args, data)
    [] ep = "stdio" -> StdioFormat(tool, args, data)

\* what the handler does with an exception raised inside it
Raise(ep, tool, kind, cause) ==
  CASE ep = "ext" -> ExtRaise(tool, cause)
    [] ep = "min" -> MinRaise(tool, cause)
    [] ep = "stdio" -> StdioRaise(kind, cause)

\* -------------------------------------------------------------------- state
\* inv[i]: the invocation in slot i.
\*   ep, tool, args   the request: entry point, tool name, argument mapping
\*                    (has: the argument names present, num: the value of its
\*                    integer argument, 0 when it has none)
\*   pc               idle, validating, invoking, formatting or done
\*   ran              the handler's body has started
\*   calls            the collaborator calls made so far, in order, each with
\*                    its outcome: returned, raised or rejected (not bindable)
\*   data             what the collaborators returned
\*   raised           where an exception was raised: none, arguments,
\*                    collaborator or formatting
\*   result           the result handed to the transport
\* server: the entry point this process runs.
\* registry: the tool names registered so far, in registration order.
\* listing: what the last discovery request returned (<< >> before any).
\* client: a client script's run (its position, the requests it has sent).
\* ka: the keep-alive service's run.
VARIABLES inv, server, registry, listing, client, ka, mon, auth

boot == << server, registry, auth >>

disc == << listing >>

\* the programs that run beside the server
outside == << client, ka, mon >>

serving == << inv, server, registry, listing, auth >>

vars == << inv, server, registry, listing, client, ka, mon, auth >>

\* no client script runs
NoClient ==
  [script |-> "none", pc |-> "end", sent |-> << >>, names |-> {}, case |-> 0,
   success_count |-> 0]

\* the keep-alive service does not run
NoKeepAlive ==
  [pc |-> "off", startHour |-> 0, hours |-> 0, endAt |-> 0, now |-> 0,
   iterStart |-> 0, lastPing |-> 0, log |-> {}]

\* no request of a monitoring loop has been answered
NoReply == [kind |-> "none", status |-> 0]

\* the bearer-token check is not followed
NoAuth == [token |-> "", provider |-> "unset"]

\* neither monitoring loop runs
NoMonitor ==
  [script |-> "none", pc |-> "off", ping_count |-> 0, success_count |-> 0,
   error_count |-> 0, sent |-> 0, pings |-> 0, fallbacks |-> 0,
   success |-> FALSE, counted |-> FALSE, basic |-> FALSE, reply |-> NoReply,
   stats |-> FALSE, statsLines |-> 0]

Idle ==
  [ep |-> "", tool |-> "", args |-> [has |-> {}, num |-> 0, category |-> "None"], pc |-> "idle",
   ran |-> FALSE, calls |-> << >>, data |-> NoData, raised |-> "none",
   result |-> NoResult, bearer |-> ""]

\* the values a client passes for category: JSON null (Python's None), the
\* empty string, a category
Categories == {"None", "", "museums"}

\* the values a client passes for limit
MaxLimit == 1

Limits == (0 - MaxLimit)..MaxLimit

\* the argument mappings a client sends to a tool
ArgChoices(ep, tool) ==
  LET req == Required(ep, tool)
  IN  { [has |-> h, num |-> 0, category |-> "None"] : h \in {req} \cup { req \ {r} : r \in req } }
        \cup (IF tool = "get_weather"
                THEN { [has |-> req \cup {"days"}, num |-> d,
                        category |-> "None"] : d \in 0..MaxDays }
                ELSE {})
        \cup (IF ListDefaults(ep, tool) # {}
                THEN { [has |-> req \cup ListDefaults(ep, tool), num |-> 0,
                        category |-> "None"] }
                ELSE {})
        \cup (IF "limit" \in Optional(ep, tool)
                THEN { [has |-> req \cup {"limit"}, num |-> k,
                        category |-> "None"] : k \in Limits }
                ELSE {})
        \cup (IF "category" \in Optional(ep, tool)
                THEN { [has |-> req \cup {"category"}, num |-> 0,
                        category |-> c] : c \in Categories }
                ELSE {})

Init ==
  /\ inv = [i \in Slots |-> Idle]
  /\ server \in EntryPoints
  /\ registry = << >>
  /\ listing = << >>
  /\ client = NoClient
  /\ ka = NoKeepAlive
  /\ mon = NoMonitor
  /\ auth = NoAuth

\* ---------------------------------------------------------------- start-up
\* Started with the server run before the module's last decorator
StartedEarly == Len(registry) >= 1

\* the module's decorators have all run: the server starts serving
Started == Len(registry) = Len(Registry(server))

\* the next decorator of the module runs and registers its handler's name
Register ==
  /\ ~Started
  /\ registry' = Append(registry, Registry(server)[Len(registry) + 1])
  /\ UNCHANGED << inv, server, auth, disc, outside >>

\* --------------------------------------------------------------- dispatch
\* lookup(name) of the registry: the tool is registered
Lookup(ep, name) == ep = server /\ name \in Range(registry)

\* the error envelope for a name the registry does not hold
UnknownTool(name) == Failure("InvalidRequest", <<"Unknown", "tool:", name>>)

\* a request for a registered tool arrives and is handed to validation
Dispatch(i) ==
  /\ Started
  /\ inv[i].pc = "idle"
  /\ \E name \in RequestedNames :
       /\ Lookup(server, name)
       /\ \E a \in ArgChoices(server, name) :
            inv' = [inv EXCEPT ![i] =
                      [Idle EXCEPT !.ep = server, !.tool = name, !.args = a,
                                   !.pc = "validating"]]
  /\ UNCHANGED << boot, disc, outside >>

\* a request for a name the registry does not hold arrives
DispatchUnknown(i) ==
  /\ Started
  /\ inv[i].pc = "idle"
  /\ \E name \in RequestedNames :
       /\ ~Lookup(server, name)
       /\ inv' = [inv EXCEPT ![i] =
                    [Idle EXCEPT !.ep = server, !.tool = name, !.pc = "done",
                                 !.result = UnknownTool(name)]]
  /\ UNCHANGED << boot, disc, outside >>

\* -------------------------------------------------------------- validation
\* The HTTP servers' handlers name their parameters, so the dispatcher binds
\* the argument mapping to the signature before the body runs; the stdio
\* server's handlers take **kwargs and the body runs with any mapping.
BindsSignature(ep) == ep \in {"ext", "min"}

\* The binding to the signature fails: the body never runs.  The stdio
\* server declares an input_schema beside each handler; whether the server
\* object enforces it is not decided by the handlers, so a mapping that lacks
\* a required name may be refused here or reach the body (ValidateAccept).
ValidateReject(i) ==
  LET v == inv[i]
  IN  /\ v.pc = "validating"
      /\ \/ ~(Required(v.ep, v.tool) \subseteq v.args.has)
         \/ /\ BindsSignature(v.ep)
            /\ ~(v.args.has \subseteq Declared(v.ep, v.tool))
      /\ inv' = [inv EXCEPT ![i].pc = "done",
                            ![i].result =
                              Failure("InvalidParams",
                                      <<"Invalid", "arguments", "for", v.tool>>)]
      /\ UNCHANGED << boot, disc, outside >>

\* the body starts; an argument the signature does not declare is dropped
ValidateAccept(i) ==
  LET v == inv[i]
  IN  /\ v.pc = "validating"
      /\ BindsSignature(v.ep) => Required(v.ep, v.tool) \subseteq v.args.has
      /\ inv' = [inv EXCEPT ![i].ran = TRUE,
                            ![i].pc = IF Calls(v.ep, v.tool) = << >>
                                        THEN "formatting" ELSE "invoking"]
      /\ UNCHANGED << boot, disc, outside >>

\* -------------------------------------------------------------- invocation
\* the call site the handler is at
NextSite(v) == Calls(v.ep, v.tool)[Len(v.calls) + 1]

\* category=category or "tourist_attraction" of the minimal server, whose
\* parameter is None when the request has no category
MinCategory(args) ==
  IF "category" \in args.has /\ args.category \notin {"None", ""}
    THEN args.category
    ELSE "tourist_attraction"

\* category=kwargs.get("category", "tourist_attraction") of the stdio server
StdioCategory(args) ==
  IF "category" \in args.has THEN args.category ELSE "tourist_attraction"

\* the value the call site passes for category ("-" where it passes none)
PassedCategory(v) ==
  IF NextSite(v).collab = "search_places" /\ v.ep = "min"
    THEN MinCategory(v.args)
  ELSE IF NextSite(v).collab = "search_places" /\ v.ep = "stdio"
    THEN StdioCategory(v.args)
  ELSE "-"

Made(v, outcome) ==
  [collab |-> NextSite(v).collab, pos |-> NextSite(v).pos, kw |-> NextSite(v).kw,
   category |-> PassedCategory(v), outcome |-> outcome]

\* a subscript of the argument mapping raises KeyError: the call is not made
InvokeKeyError(i) ==
  LET v == inv[i]
  IN  /\ v.pc = "invoking"
      /\ ~(NextSite(v).subscripts \subseteq v.args.has)
      /\ inv' = [inv EXCEPT ![i].pc = "done", ![i].raised = "arguments",
                            ![i].result =
                              Raise(v.ep, v.tool, "KeyError",
                                    << CHOOSE k \in NextSite(v).subscripts :
                                         k \notin v.args.has >>)]
      /\ UNCHANGED << boot, disc, outside >>

\* the call passes a name the collaborator does not take: TypeError
InvokeRejected(i) ==
  LET v == inv[i]
  IN  /\ v.pc = "invoking"
      /\ NextSite(v).subscripts \subseteq v.args.has
      /\ ~Bindable(NextSite(v))
      /\ inv' = [inv EXCEPT ![i].pc = "done", ![i].raised = "collaborator",
                            ![i].calls = Append(v.calls, Made(v, "rejected")),
                            ![i].result =
                              Raise(v.ep, v.tool, "TypeError",
                                    BindErrorText(NextSite(v)))]
      /\ UNCHANGED << boot, disc, outside >>

\* InvokeRaises with the exception swallowed: the handler goes on to its
\* next call
InvokeRaisesAndGoesOn(i) ==
  LET v == inv[i]
  IN  /\ v.pc = "invoking"
      /\ NextSite(v).subscripts \subseteq v.args.has
      /\ Bindable(NextSite(v))
      /\ \E cause \in Causes :
           inv' = [inv EXCEPT ![i].raised = "collaborator",
                              ![i].calls = Append(v.calls, Made(v, "raised")),
                              ![i].result = Raise(v.ep, v.tool, "Exception", cause),
                              ![i].pc = IF Len(v.calls) + 1 = Len(Calls(v.ep, v.tool))
                                          THEN "done" ELSE "invoking"]
      /\ UNCHANGED << boot, disc, outside >>

\* the collaborator raises
InvokeRaises(i) ==
  LET v == inv[i]
  IN  /\ v.pc = "invoking"
      /\ NextSite(v).subscripts \subseteq v.args.has
      /\ Bindable(NextSite(v))
      /\ \E cause \in Causes :
           inv' = [inv EXCEPT ![i].pc = "done", ![i].raised = "collaborator",
                              ![i].calls = Append(v.calls, Made(v, "raised")),
                              ![i].result = Raise(v.ep, v.tool, "Exception", cause)]
      /\ UNCHANGED << boot, disc, outside >>

\* the pending call runs into a deadline of its own: it raises a timeout
\* exception, an Exception like any other to the handler
InvokeTimesOut(i) ==
  LET v == inv[i]
  IN  /\ v.pc = "invoking"
      /\ NextSite(v).subscripts \subseteq v.args.has
      /\ Bindable(NextSite(v))
      /\ inv' = [inv EXCEPT ![i].pc = "done", ![i].raised = "timeout",
                            ![i].calls = Append(v.calls, Made(v, "raised")),
                            ![i].result = Raise(v.ep, v.tool, "TimeoutError",
                                                <<"timed", "out">>)]
      /\ UNCHANGED << boot, disc, outside >>

\* the request is cancelled, or the transport's deadline expires, while the
\* call is pending: CancelledError is thrown into the await; it is a
\* BaseException, which no except Exception clause catches
InvokeCancelled(i) ==
  LET v == inv[i]
  IN  /\ v.pc = "invoking"
      /\ NextSite(v).subscripts \subseteq v.args.has
      /\ Bindable(NextSite(v))
      /\ inv' = [inv EXCEPT ![i].pc = "done", ![i].raised = "cancelled",
                            ![i].calls = Append(v.calls, Made(v, "cancelled")),
                            ![i].result = Raw("CancelledError", << >>)]
      /\ UNCHANGED << boot, disc, outside >>

\* the collaborator returns; the handler goes on to its next call, or to
\* formatting after its last one
InvokeReturns(i) ==
  LET v == inv[i]
  IN  /\ v.pc = "invoking"
      /\ NextSite(v).subscripts \subseteq v.args.has
      /\ Bindable(NextSite(v))
      /\ \E d \in Returns(NextSite(v).collab) :
           inv' = [inv EXCEPT ![i].calls = Append(v.calls, Made(v, "returned")),
                              ![i].data = Merge(v.data, NextSite(v).collab, d),
                              ![i].pc = IF Len(v.calls) + 1 = Len(Calls(v.ep, v.tool))
                                          THEN "formatting" ELSE "invoking"]
      /\ UNCHANGED << boot, disc, outside >>

\* -------------------------------------------------------------- formatting
\* a handler whose answer depends on what was served before: once another
\* invocation has ended it answers that nothing was found
FormatStepAfterAnother(i) ==
  LET v == inv[i]
      r == IF \E j \in DOMAIN inv : j # i /\ inv[j].pc = "done"
             THEN NoResultsText
             ELSE Format(v.ep, v.tool, v.args, v.data)
  IN  /\ v.pc = "formatting"
      /\ inv' = [inv EXCEPT ![i].pc = "done", ![i].result = r,
                            ![i].raised = IF r.status = "Success"
                                            THEN "none" ELSE "formatting"]
      /\ UNCHANGED << boot, disc, outside >>

\* the handler formats what the collaborators returned and ends
FormatStep(i) ==
  LET v == inv[i]
      r == Format(v.ep, v.tool, v.args, v.data)
  IN  /\ v.pc = "formatting"
      /\ inv' = [inv EXCEPT ![i].pc = "done", ![i].result = r,
                            ![i].raised = IF r.status = "Success"
                                            THEN "none" ELSE "formatting"]
      /\ UNCHANGED << boot, disc, outside >>

\* the transport has encoded the result; the invocation is discarded
Release(i) ==
  /\ inv[i].pc = "done"
  /\ inv' = [inv EXCEPT ![i] = Idle]
  /\ UNCHANGED << boot, disc, outside >>

\* ---------------------------------------------------------------- discovery
\* a discovery request is answered with the registered names, in order
Discover ==
  /\ Started
  /\ listing' = registry
  /\ UNCHANGED << inv, boot, outside >>

Next ==
  \/ Register
  \/ Discover
  \/ \E i \in Slots :
       \/ Dispatch(i)
       \/ DispatchUnknown(i)
       \/ ValidateReject(i)
       \/ ValidateAccept(i)
       \/ InvokeKeyError(i)
       \/ InvokeRejected(i)
       \/ InvokeRaises(i)
       \/ InvokeTimesOut(i)
       \/ InvokeCancelled(i)
       \/ InvokeReturns(i)
       \/ FormatStep(i)
       \/ Release(i)

Spec == Init /\ [][Next]_vars

\* ------------------------------------------------- concurrent invocations
\* The extended server, started, with several requests in flight at once
\* for the two tools whose signatures have list-valued defaults.
MaxConc == 2

ConcSlots == 1..MaxConc

ConcTools == {"plan_trip", "find_restaurants"}

ConcInit ==
  /\ inv = [i \in ConcSlots |-> Idle]
  /\ server = "ext"
  /\ registry = Registry("ext")
  /\ listing = << >>
  /\ client = NoClient
  /\ ka = NoKeepAlive
  /\ mon = NoMonitor
  /\ auth = NoAuth

\* a request for one of the two tools arrives
ConcDispatch(i) ==
  /\ Started
  /\ inv[i].pc = "idle"
  /\ \E name \in ConcTools :
       /\ Lookup(server, name)
       /\ \E a \in ArgChoices(server, name) :
            inv' = [inv EXCEPT ![i] =
                      [Idle EXCEPT !.ep = server, !.tool = name, !.args = a,
                                   !.pc = "validating"]]
  /\ UNCHANGED << boot, disc, outside >>

ConcNext ==
  \E i \in ConcSlots :
    \/ ConcDispatch(i)
    \/ ValidateReject(i)
    \/ ValidateAccept(i)
    \/ InvokeRaises(i)
    \/ InvokeReturns(i)
    \/ FormatStep(i)
    \/ Release(i)

ConcSpec == ConcInit /\ [][ConcNext]_vars

\* ------------------------------------------------------ two equal requests
\* One server serves requests one after the other.  The invocation in slot 1
\* is kept once it has ended; slot 2 then serves any number of further
\* requests, each released when it has ended.
PairSlots == {1, 2}

PairInit ==
  /\ inv = [i \in PairSlots |-> Idle]
  /\ server \in EntryPoints
  /\ registry = Registry(server)
  /\ listing = << >>
  /\ client = NoClient
  /\ ka = NoKeepAlive
  /\ mon = NoMonitor
  /\ auth = NoAuth

\* a request for a registered tool arrives: the first one, or a later one
\* once the first has been answered
PairDispatch(i) ==
  /\ Started
  /\ inv[i].pc = "idle"
  /\ i = 1 \/ inv[1].pc = "done"
  /\ \E name \in RequestedNames :
       /\ Lookup(server, name)
       /\ \E a \in ArgChoices(server, name) :
            inv' = [inv EXCEPT ![i] =
                      [Idle EXCEPT !.ep = server, !.tool = name, !.args = a,
                                   !.pc = "validating"]]
  /\ UNCHANGED << boot, disc, outside >>

\* the transport has encoded the result of a later request
PairRelease(i) ==
  /\ i # 1
  /\ inv[i].pc = "done"
  /\ inv' = [inv EXCEPT ![i] = Idle]
  /\ UNCHANGED << boot, disc, outside >>

PairNext ==
  \E i \in PairSlots :
    \/ PairDispatch(i)
    \/ ValidateReject(i)
    \/ ValidateAccept(i)
    \/ InvokeKeyError(i)
    \/ InvokeRejected(i)
    \/ InvokeRaises(i)
    \/ InvokeTimesOut(i)
    \/ InvokeCancelled(i)
    \/ InvokeReturns(i)
    \/ FormatStep(i)
    \/ PairRelease(i)

PairSpec == PairInit /\ [][PairNext]_vars

\* ------------------------------------------------------------ bearer tokens
\* The HTTP servers behind their bearer-token check.  The extended server
\* hands its provider to the FastMCP constructor; the minimal server installs
\* it with mcp.auth.set_provider once its tools are registered.
ConfiguredTokens == {"t1", "t2"}

\* the bearer tokens requests carry
PresentedTokens == ConfiguredTokens \cup {"", "t1x"}

\* load_access_token returned None
NoAccessToken == [token |-> "", client_id |-> "", scopes |-> {}]

\* a provider that grants every token
load_access_tokenGrantsAll(self_token, token) ==
  [token |-> token, client_id |-> "puch-client", scopes |-> {"*"}]

\* SimpleBearerAuthProvider.load_access_token
load_access_token(self_token, token) ==
  IF token = self_token
    THEN [token |-> token, client_id |-> "puch-client", scopes |-> {"*"}]
    ELSE NoAccessToken

AuthSlots == {1}

AuthInit ==
  /\ inv = [i \in AuthSlots |-> Idle]
  /\ server \in {"ext", "min"}
  /\ registry = << >>
  /\ listing = << >>
  /\ client = NoClient
  /\ ka = NoKeepAlive
  /\ mon = NoMonitor
  /\ auth \in { [token |-> t,
                provider |-> IF server = "ext" THEN "installed" ELSE "unset"] :
               t \in ConfiguredTokens }

\* mcp.auth.set_provider(auth_provider) installs the provider
SetProvider ==
  /\ server = "min"
  /\ Started
  /\ auth.provider = "unset"
  /\ auth' = [auth EXCEPT !.provider = "installed"]
  /\ UNCHANGED << inv, server, registry, disc, outside >>

\* the statement raises (the server was built without auth): the module
\* does not load and the server never serves
SetProviderFails ==
  /\ server = "min"
  /\ Started
  /\ auth.provider = "unset"
  /\ auth' = [auth EXCEPT !.provider = "failed"]
  /\ UNCHANGED << inv, server, registry, disc, outside >>

\* a request whose bearer token the provider answers with None is refused
\* by the transport
AuthReject(i) ==
  /\ Started
  /\ auth.provider = "installed"
  /\ inv[i].pc = "idle"
  /\ \E name \in RequestedNames, b \in PresentedTokens :
       /\ Lookup(server, name)
       /\ load_access_token(auth.token, b) = NoAccessToken
       /\ \E a \in ArgChoices(server, name) :
            inv' = [inv EXCEPT ![i] =
                      [Idle EXCEPT !.ep = server, !.tool = name, !.args = a,
                                   !.bearer = b, !.pc = "done",
                                   !.result = Failure("Unauthorized",
                                                      <<"invalid_token">>)]]
  /\ UNCHANGED << boot, disc, outside >>

\* a request whose bearer token the provider answers with an access token
\* goes on to its handler
AuthDispatch(i) ==
  /\ Started
  /\ auth.provider = "installed"
  /\ inv[i].pc = "idle"
  /\ \E name \in RequestedNames, b \in PresentedTokens :
       /\ Lookup(server, name)
       /\ load_access_token(auth.token, b) # NoAccessToken
       /\ \E a \in ArgChoices(server, name) :
            inv' = [inv EXCEPT ![i] =
                      [Idle EXCEPT !.ep = server, !.tool = name, !.args = a,
                                   !.bearer = b, !.pc = "validating"]]
  /\ UNCHANGED << boot, disc, outside >>

AuthNext ==
  \/ Register
  \/ SetProvider
  \/ SetProviderFails
  \/ \E i \in AuthSlots :
       \/ AuthReject(i)
       \/ AuthDispatch(i)
       \/ ValidateReject(i)
       \/ ValidateAccept(i)
       \/ InvokeRejected(i)
       \/ InvokeRaises(i)
       \/ InvokeReturns(i)
       \/ FormatStep(i)
       \/ Release(i)

AuthSpec == AuthInit /\ [][AuthNext]_vars

\* ------------------------------------------------------- client scripts
\* session: test_fastmcp_session.py, final: test_final_working.py,
\* flight: test_flight_fix.py, jsonrpc: test_deployed_jsonrpc.py
SessionScripts == {"session", "final", "flight"}

Scripts == SessionScripts \cup {"jsonrpc"}

\* What a POST comes back with: an exception of the HTTP client (no status,
\* written 0), or a status code with a body that is plain JSON, an event
\* stream of data: lines, or neither, and that holds a result with a tools
\* list, a result without one, or no result.
Replies ==
  { [status |-> 0, form |-> "none", content |-> "none"],
    [status |-> 500, form |-> "json", content |-> "other"] }
    \cup [status : {200}, form : {"json", "sse", "garbage"},
          content : {"tools", "result", "other"}]

\* response.json() returns
JsonParses(r) == r.form = "json"

\* "result" in data
HasResult(r) == r.content \in {"tools", "result"}

\* a request the script has sent, with the status that came back and
\* whether the script read a tools list out of the answer
Sent(method, name, r, tools) ==
  [method |-> method, name |-> name, status |-> r.status, tools |-> tools]

\* the tool names a server answers discovery with
DiscoveryAnswers ==
  { Range(RegistryExt), Range(RegistryMin), Range(RegistryStdio) }

\* the tester's test_cases, in order
TestCases ==
  << "health_check", "validate", "get_weather", "plan_trip",
     "search_hotel_options", "discover_places" >>

ClientInit ==
  /\ client \in { [NoClient EXCEPT !.script = sc,
                                   !.pc = IF sc = "jsonrpc" THEN "list"
                                                            ELSE "initialize"] :
                  sc \in Scripts }
  /\ inv = [i \in Slots |-> Idle]
  /\ server = "min"
  /\ registry = Registry("min")
  /\ listing = << >>
  /\ ka = NoKeepAlive
  /\ mon = NoMonitor
  /\ auth = NoAuth

\* ClientInitialize going on to its next request whatever came back
ClientInitializeGoesOn ==
  /\ client.script \in SessionScripts
  /\ client.pc = "initialize"
  /\ \E r \in Replies :
       client' = [client EXCEPT
                    !.sent = Append(@, Sent("initialize", "", r, FALSE)),
                    !.pc = CASE client.script = "session" -> "notify"
                             [] client.script = "final" -> "list"
                             [] client.script = "flight" -> "call"]
  /\ UNCHANGED << serving, ka, mon >>

\* step 1 of the three session scripts: POST initialize
ClientInitialize ==
  /\ client.script \in SessionScripts
  /\ client.pc = "initialize"
  /\ \E r \in Replies :
       client' = [client EXCEPT
                    !.sent = Append(@, Sent("initialize", "", r, FALSE)),
                    !.pc = CASE r.status # 200 -> "end"
                             [] client.script = "session" ->
                                  IF JsonParses(r) THEN "notify" ELSE "end"
                             [] client.script = "final" -> "list"
                             [] client.script = "flight" ->
                                  IF r.form = "sse" /\ HasResult(r)
                                    THEN "call" ELSE "end"]
  /\ UNCHANGED << serving, ka, mon >>

\* step 2 of test_fastmcp_session: POST notifications/initialized; the
\* status that comes back is printed, not tested
SessionNotify ==
  /\ client.script = "session"
  /\ client.pc = "notify"
  /\ \E r \in Replies :
       client' = [client EXCEPT
                    !.sent = Append(@, Sent("notifications/initialized", "", r, FALSE)),
                    !.pc = IF r.status = 0 THEN "end" ELSE "list"]
  /\ UNCHANGED << serving, ka, mon >>

\* POST tools/list of test_fastmcp_session and test_final_working
ClientListTools ==
  /\ client.script \in {"session", "final"}
  /\ client.pc = "list"
  /\ \E r \in Replies :
       LET tools == /\ r.status = 200
                    /\ r.content = "tools"
                    /\ IF client.script = "session" THEN JsonParses(r)
                                                    ELSE r.form # "garbage"
       IN  client' = [client EXCEPT
                        !.sent = Append(@, Sent("tools/list", "", r, tools)),
                        !.pc = CASE client.script = "session" ->
                                      IF tools THEN "call" ELSE "end"
                                 [] client.script = "final" ->
                                      IF r.status = 200 THEN "call" ELSE "end"]
  /\ UNCHANGED << serving, ka, mon >>

\* the one tools/call of a session script
ClientCallTool ==
  /\ client.script \in SessionScripts
  /\ client.pc = "call"
  /\ \E r \in Replies :
       client' = [client EXCEPT
                    !.sent = Append(@, Sent("tools/call",
                                            IF client.script = "flight"
                                              THEN "search_flight_options"
                                              ELSE "health_check", r, FALSE)),
                    !.pc = "end"]
  /\ UNCHANGED << serving, ka, mon >>

\* test_tools_list of the JSON-RPC tester, and the return of
\* run_comprehensive_test when it fails
TesterListTools ==
  /\ client.script = "jsonrpc"
  /\ client.pc = "list"
  /\ \E r \in Replies, answer \in DiscoveryAnswers :
       LET ok == r.status = 200 /\ JsonParses(r) /\ HasResult(r)
           found == IF ok /\ r.content = "tools" THEN answer ELSE {}
       IN  client' = [client EXCEPT
                        !.sent = Append(@, Sent("tools/list", "", r,
                                                ok /\ r.content = "tools")),
                        !.names = found,
                        !.case = 1,
                        !.pc = IF ok THEN "cases" ELSE "end"]
  /\ UNCHANGED << serving, ka, mon >>

\* TesterSkipCase calling the tool all the same
TesterSkipCaseCallsAnyway ==
  /\ client.script = "jsonrpc"
  /\ client.pc = "cases"
  /\ client.case <= Len(TestCases)
  /\ TestCases[client.case] \notin client.names
  /\ \E r \in Replies :
       client' = [client EXCEPT
                    !.sent = Append(@, Sent("tools/call", TestCases[client.case],
                                            r, FALSE)),
                    !.case = @ + 1]
  /\ UNCHANGED << serving, ka, mon >>

\* the test case's tool is not among the discovered names: it is skipped
TesterSkipCase ==
  /\ client.script = "jsonrpc"
  /\ client.pc = "cases"
  /\ client.case <= Len(TestCases)
  /\ TestCases[client.case] \notin client.names
  /\ client' = [client EXCEPT !.case = @ + 1]
  /\ UNCHANGED << serving, ka, mon >>

\* the test case's tool is among the discovered names: test_tool_call
TesterCallCase ==
  /\ client.script = "jsonrpc"
  /\ client.pc = "cases"
  /\ client.case <= Len(TestCases)
  /\ TestCases[client.case] \in client.names
  /\ \E r \in Replies :
       LET ok == r.status = 200 /\ JsonParses(r) /\ HasResult(r)
       IN  client' = [client EXCEPT
                        !.sent = Append(@, Sent("tools/call", TestCases[client.case],
                                                r, FALSE)),
                        !.success_count = IF ok THEN @ + 1 ELSE @,
                        !.case = @ + 1]
  /\ UNCHANGED << serving, ka, mon >>

\* the loop over test_cases has ended: the success count is reported
TesterReport ==
  /\ client.script = "jsonrpc"
  /\ client.pc = "cases"
  /\ client.case > Len(TestCases)
  /\ client' = [client EXCEPT !.pc = "end"]
  /\ UNCHANGED << serving, ka, mon >>

ClientNext ==
  \/ ClientInitialize
  \/ SessionNotify
  \/ ClientListTools
  \/ ClientCallTool
  \/ TesterListTools
  \/ TesterSkipCase
  \/ TesterCallCase
  \/ TesterReport

ClientSpec == ClientInit /\ [][ClientNext]_vars

\* ------------------------------------------------------------ keep-alive
\* keep_alive.py --hours H.  Time is counted in ping intervals since the
\* midnight before the start; the service starts on the hour.
MaxHours == 24

PING_INTERVAL == 300

TicksPerHour == 3600 \div PING_INTERVAL

\* the hour field of a datetime
LastHour == 23

KeepAliveInit ==
  /\ ka \in { [NoKeepAlive EXCEPT !.pc = "start", !.startHour = s, !.hours = h,
                                  !.now = s * TicksPerHour] :
              s \in 0..LastHour, h \in 1..MaxHours }
  /\ inv = [i \in Slots |-> Idle]
  /\ server = "min"
  /\ registry = Registry("min")
  /\ listing = << >>
  /\ client = NoClient
  /\ mon = NoMonitor
  /\ auth = NoAuth

\* end_time = start_time.replace(hour=start_time.hour + duration_hours)
KeepAliveStart ==
  /\ ka.pc = "start"
  /\ ka.startHour + ka.hours <= LastHour
  /\ ka' = [ka EXCEPT !.endAt = (ka.startHour + ka.hours) * TicksPerHour,
                      !.pc = "loop"]
  /\ UNCHANGED << serving, client, mon >>

\* replace() raises ValueError (hour must be in 0..23); the statement stands
\* before the try of run_keep_alive, so the error leaves it and main, and the
\* program prints it and exits with status 1
KeepAliveStartFails ==
  /\ ka.pc = "start"
  /\ ka.startHour + ka.hours > LastHour
  /\ ka' = [ka EXCEPT !.pc = "crashed", !.log = {"Error: hour must be in 0..23"}]
  /\ UNCHANGED << serving, client, mon >>

\* one pass of the loop before the end time: ping (with the fallback ping
\* when it fails, which may take up to another interval), then sleep
KeepAliveIterate ==
  /\ ka.pc = "loop"
  /\ ka.now < ka.endAt
  /\ \E slow \in {0, 1} :
       ka' = [ka EXCEPT !.iterStart = ka.now, !.lastPing = ka.now,
                        !.now = ka.now + 1 + slow]
  /\ UNCHANGED << serving, client, mon >>

\* the pass that starts at or after the end time: break, then the finally
\* clause logs the final statistics
KeepAliveComplete ==
  /\ ka.pc = "loop"
  /\ ka.now >= ka.endAt
  /\ ka' = [ka EXCEPT !.iterStart = ka.now, !.pc = "ended",
                      !.log = {"Scheduled duration completed", "FINAL STATISTICS"}]
  /\ UNCHANGED << serving, client, mon >>

KeepAliveNext ==
  \/ KeepAliveStart
  \/ KeepAliveStartFails
  \/ KeepAliveIterate
  \/ KeepAliveComplete

KeepAliveSpec == KeepAliveInit /\ [][KeepAliveNext]_vars

\* ------------------------------------------------------- monitoring loops
\* keep_alive.py without --hours (end_time stays None: the loop has no end
\* of its own) and simple_monitor.py, each followed for MaxPings pings.
MaxPings == 12

\* the status codes a request of a monitoring loop is answered with
Statuses == {200, 301, 302, 307, 404, 500, 503}

\* what a request ends in: a response, or an exception of the HTTP library
\* (a timeout, a connection error, any other)
NetReplies ==
  { [kind |-> "response", status |-> s] : s \in Statuses }
    \cup { [kind |-> k, status |-> 0] : k \in {"timeout", "connect", "other"} }

\* MCPKeepAlive.send_ping: the counters after the health_check request ended
\* in r, and the value returned.  ping_count is raised once the response is
\* in; the three except clauses raise error_count only.
send_ping(m, r) ==
  IF r.kind = "response"
    THEN IF r.status = 200
           THEN [m EXCEPT !.ping_count = @ + 1, !.success_count = @ + 1,
                          !.success = TRUE]
           ELSE [m EXCEPT !.ping_count = @ + 1, !.error_count = @ + 1,
                          !.success = FALSE]
    ELSE [m EXCEPT !.error_count = @ + 1, !.success = FALSE]

\* send_basic_ping that takes a redirect or a 404 for a failure
send_basic_pingOnly200(r) == r.kind = "response" /\ r.status = 200

\* MCPKeepAlive.send_basic_ping: the value returned when the GET ended in r
send_basic_ping(r) ==
  IF r.kind = "response"
    THEN r.status \in {404, 200, 301, 302, 307}
    ELSE FALSE

\* simple_monitor.ping_server: the value returned when the GET ended in r
ping_server(r) ==
  IF r.kind = "response"
    THEN r.status \in {200, 404, 301, 302, 307}
    ELSE FALSE

\* keep_alive logs its statistics when ping_count % 10 == 0
KeepAliveStatsEvery == 10

\* simple_monitor logs its statistics when ping_count % 12 == 0
MonitorStatsEvery == 12

MonitorInit ==
  /\ mon \in { [NoMonitor EXCEPT !.script = s, !.pc = "top"] :
               s \in {"keep_alive", "simple_monitor"} }
  /\ inv = [i \in Slots |-> Idle]
  /\ server = "min"
  /\ registry = Registry("min")
  /\ listing = << >>
  /\ client = NoClient
  /\ ka = NoKeepAlive
  /\ auth = NoAuth

\* success = await self.send_ping(), then the test of `if not success`
KeepAliveSendPing ==
  /\ mon.script = "keep_alive"
  /\ mon.pc = "top"
  /\ mon.sent < MaxPings
  /\ \E r \in NetReplies :
       LET m == send_ping(mon, r)
       IN  mon' = [m EXCEPT !.sent = @ + 1, !.pings = @ + 1,
                            !.counted = (m.ping_count # mon.ping_count),
                            !.pc = IF m.success THEN "stats" ELSE "fallback"]
  /\ UNCHANGED << serving, client, ka >>

\* the fallback that feeds the counters with its outcome
KeepAliveFallbackCounts ==
  /\ mon.script = "keep_alive"
  /\ mon.pc = "fallback"
  /\ \E r \in NetReplies :
       mon' = [mon EXCEPT !.basic = send_basic_ping(r), !.reply = r,
                          !.fallbacks = @ + 1, !.pc = "stats",
                          !.success_count =
                            IF send_basic_ping(r) THEN @ + 1 ELSE @]
  /\ UNCHANGED << serving, client, ka >>

\* await self.send_basic_ping(): the value returned is dropped
KeepAliveFallback ==
  /\ mon.script = "keep_alive"
  /\ mon.pc = "fallback"
  /\ \E r \in NetReplies :
       mon' = [mon EXCEPT !.basic = send_basic_ping(r), !.reply = r,
                          !.fallbacks = @ + 1, !.pc = "stats"]
  /\ UNCHANGED << serving, client, ka >>

\* if self.ping_count % 10 == 0: the Stats line
KeepAliveStats ==
  /\ mon.script = "keep_alive"
  /\ mon.pc = "stats"
  /\ LET due == mon.ping_count % KeepAliveStatsEvery = 0
     IN  mon' = [mon EXCEPT !.stats = due,
                            !.statsLines = IF due THEN @ + 1 ELSE @,
                            !.pc = "sleep"]
  /\ UNCHANGED << serving, client, ka >>

\* await asyncio.sleep(PING_INTERVAL), and the next pass begins
KeepAliveSleep ==
  /\ mon.script = "keep_alive"
  /\ mon.pc = "sleep"
  /\ mon' = [mon EXCEPT !.pc = "top", !.pings = 0, !.fallbacks = 0,
                        !.counted = FALSE, !.stats = FALSE, !.basic = FALSE,
                        !.reply = NoReply]
  /\ UNCHANGED << serving, client, ka >>

\* the service is stopped while it waits (Ctrl+C): the finally clause logs
\* the final statistics
KeepAliveStopped ==
  /\ mon.script = "keep_alive"
  /\ mon.pc \in {"top", "fallback", "stats", "sleep"}
  /\ mon' = [mon EXCEPT !.pc = "ended"]
  /\ UNCHANGED << serving, client, ka >>

\* one pass of run_monitor up to its sleep: count the ping, ping_server(),
\* count the success, log the statistics every 12 pings
MonitorPing ==
  /\ mon.script = "simple_monitor"
  /\ mon.pc = "top"
  /\ mon.ping_count < MaxPings
  /\ \E r \in NetReplies :
       LET n == mon.ping_count + 1
           due == n % MonitorStatsEvery = 0
       IN  mon' = [mon EXCEPT !.ping_count = n, !.sent = @ + 1,
                              !.pings = @ + 1, !.counted = TRUE,
                              !.basic = ping_server(r), !.reply = r,
                              !.success = ping_server(r),
                              !.success_count =
                                IF ping_server(r) THEN @ + 1 ELSE @,
                              !.stats = due,
                              !.statsLines = IF due THEN @ + 1 ELSE @,
                              !.pc = "sleep"]
  /\ UNCHANGED << serving, client, ka >>

\* time.sleep(PING_INTERVAL), and the next pass begins
MonitorSleep ==
  /\ mon.script = "simple_monitor"
  /\ mon.pc = "sleep"
  /\ mon' = [mon EXCEPT !.pc = "top", !.pings = 0, !.counted = FALSE,
                        !.stats = FALSE, !.basic = FALSE, !.success = FALSE,
                        !.reply = NoReply]
  /\ UNCHANGED << serving, client, ka >>

\* the monitor is stopped while it sleeps (Ctrl+C): the finally clause logs
\* the final statistics
MonitorStopped ==
  /\ mon.script = "simple_monitor"
  /\ mon.pc = "sleep"
  /\ mon' = [mon EXCEPT !.pc = "ended"]
  /\ UNCHANGED << serving, client, ka >>

MonitorNext ==
  \/ KeepAliveSendPing
  \/ KeepAliveFallback
  \/ KeepAliveStats
  \/ KeepAliveSleep
  \/ KeepAliveStopped
  \/ MonitorPing
  \/ MonitorSleep
  \/ MonitorStopped

MonitorSpec == MonitorInit /\ [][MonitorNext]_vars

\* ==================================================================== claims
\* an invocation of a registered tool that has ended
Ended(v) == v.pc = "done" /\ v.tool \in Registered(v.ep)

\* every call the invocation made returned
AllReturned(v) == \A k \in 1..Len(v.calls) : v.calls[k].outcome = "returned"

\* the handler got through all its collaborator calls
CallsCompleted(v) ==
  Len(v.calls) = Len(Calls(v.ep, v.tool)) /\ AllReturned(v)

\* C1: for every registered tool, an invocation whose argument mapping lacks
\* a required parameter ends in an InvalidParams failure and calls no
\* collaborator.
C1_MissingRequiredIsInvalidParams ==
  \A i \in Slots :
    (Ended(inv[i]) /\ ~(Required(inv[i].ep, inv[i].tool) \subseteq inv[i].args.has))
      => /\ inv[i].result.status = "Failure"
         /\ inv[i].result.kind = "InvalidParams"
         /\ inv[i].calls = << >>

\* C2: in every entry point, whenever a collaborator call or the formatting
\* step raises, the invocation ends in Failure with kind InternalError; no
\* raw exception reaches the transport.
C2_RaiseIsInternalError ==
  \A i \in Slots :
    (Ended(inv[i]) /\ inv[i].raised \in {"collaborator", "formatting"})
      => /\ inv[i].result.status = "Failure"
         /\ inv[i].result.kind = "InternalError"

\* C3: whenever a collaborator raises during an invocation of tool T, the
\* message of the resulting InternalError failure contains T's registered
\* name.
C3_MessageNamesTool ==
  \A i \in Slots :
    (/\ Ended(inv[i])
     /\ inv[i].raised = "collaborator"
     /\ inv[i].result.status = "Failure"
     /\ inv[i].result.kind = "InternalError")
      => inv[i].tool \in Range(inv[i].result.msg)

\* what a visa record says about the need of a visa
VisaMeaning(v) ==
  IF v.required = "true" \/ v.visa_required = "yes" THEN "required"
  ELSE IF v.required = "false" \/ v.visa_required = "no" THEN "not_required"
  ELSE "unspecified"

\* the advisory level a safety record states
LevelMeaning(s) ==
  IF s.level # "absent" THEN s.level
  ELSE IF s.advisory_level # "absent" THEN s.advisory_level
  ELSE "unspecified"

\* the visa status and the advisory level a reader of the payload is shown
ShownVisa(r) == IF r.form = "json" THEN VisaMeaning(r.visaRec) ELSE r.visa

ShownLevel(r) == IF r.form = "json" THEN LevelMeaning(r.safetyRec) ELSE r.level

\* C4: check_travel_requirements, when the visa collaborator returns a
\* non-empty record V and the safety collaborator a non-empty record S, ends
\* in Success with a payload that has a visa part and a safety part, and the
\* visa-required status and the advisory level shown mean the same as in V
\* and S, in every entry point.
C4_TravelRequirementsKeepMeaning ==
  \A i \in Slots :
    (/\ Ended(inv[i])
     /\ inv[i].tool = "check_travel_requirements"
     /\ CallsCompleted(inv[i])
     /\ VisaTruthy(inv[i].data.visa)
     /\ SafetyTruthy(inv[i].data.safety))
      => /\ inv[i].result.status = "Success"
         /\ {"visa", "safety"} \subseteq inv[i].result.sections
         /\ ShownVisa(inv[i].result) = VisaMeaning(inv[i].data.visa)
         /\ ShownLevel(inv[i].result) = LevelMeaning(inv[i].data.safety)

ListTools ==
  {"discover_places", "find_restaurants", "get_weather", "search_hotel_options",
   "search_flight_options"}

\* C5: for every list-returning tool, when the collaborator returns an empty
\* result the invocation ends in Success carrying an explicit "no results"
\* indicator, never in Failure.
C5_EmptyIsNoResults ==
  \A i \in Slots :
    (/\ Ended(inv[i])
     /\ inv[i].tool \in ListTools
     /\ CallsCompleted(inv[i])
     /\ inv[i].data.n = 0)
      => /\ inv[i].result.status = "Success"
         /\ inv[i].result.marker = "no_results"

\* the shape of forecast the entry point's get_weather reads its day records
\* from: the extended server slices a list, the minimal server reads the
\* "daily" list of a dict, the stdio server encodes whatever it is given
ReadsShape(ep, shape) ==
  CASE ep = "ext" -> shape = "list"
    [] ep = "min" -> shape = "dict"
    [] ep = "stdio" -> TRUE

\* a get_weather invocation that was sent days = d, got a forecast of n day
\* records with 1 <= d <= n, and has ended
WeatherDaysCase(v) ==
  /\ Ended(v)
  /\ v.tool = "get_weather"
  /\ "days" \in v.args.has
  /\ CallsCompleted(v)
  /\ ReadsShape(v.ep, v.data.shape)
  /\ 1 <= v.args.num
  /\ v.args.num <= v.data.n

SingleCallTools ==
  {"get_weather", "discover_places", "find_restaurants", "search_hotel_options",
   "search_flight_options", "plan_trip"}

\* the handler's body ran with every required argument present
PastValidation(v) ==
  v.ran /\ Required(v.ep, v.tool) \subseteq v.args.has

\* C7: per invocation the adapter calls each designated collaborator at most
\* once and never calls a collaborator after one failed: the calls made are
\* a prefix of the tool's fixed call sequence, only the last of them may have
\* failed, the six single-collaborator tools have made exactly one call once
\* validation has passed and the handler is past its call, and
\* check_travel_requirements that ends in Success has called the visa
\* collaborator and then the safety collaborator, once each.
C7_SingleInvocation ==
  \A i \in Slots :
    LET v == inv[i]
        sites == Calls(v.ep, v.tool)
    IN  v.pc # "idle" =>
          /\ Len(v.calls) <= Len(sites)
          /\ \A k \in 1..Len(v.calls) : v.calls[k].collab = sites[k].collab
          /\ \A k, m \in 1..Len(v.calls) :
               v.calls[k].collab = v.calls[m].collab => k = m
          /\ \A k \in 1..(Len(v.calls) - 1) : v.calls[k].outcome = "returned"
          /\ (/\ v.tool \in SingleCallTools
              /\ v.tool \in Registered(v.ep)
              /\ PastValidation(v)
              /\ v.pc \in {"formatting", "done"})
               => Len(v.calls) = 1
          /\ (/\ v.tool = "check_travel_requirements"
              /\ v.pc = "done"
              /\ v.result.status = "Success")
               => /\ Len(v.calls) = 2
                  /\ v.calls[1].collab = "check_visa_requirements"
                  /\ v.calls[2].collab = "get_safety_advisories"
                  /\ AllReturned(v)

\* C7 witness: a check_travel_requirements invocation ended after its visa
\* call failed, with that one call made.
C7_Witness ==
  \E i \in Slots :
    /\ inv[i].pc = "done"
    /\ inv[i].tool = "check_travel_requirements"
    /\ Len(inv[i].calls) = 1
    /\ inv[i].calls[1].collab = "check_visa_requirements"
    /\ inv[i].calls[1].outcome = "raised"

\* the outcome of an invocation the registry refused
Refused(v) ==
  /\ v.pc = "done"
  /\ v.result.status = "Failure"
  /\ v.result.kind = "InvalidRequest"
  /\ ~v.ran
  /\ v.calls = << >>

\* C8: an invocation that names a tool the registry does not hold yields an
\* error of class InvalidRequest, runs no handler and calls no collaborator;
\* so does the keep-alive's call of health_check on the extended server and
\* on the stdio server, which register no tool of that name.
C8_UnknownToolIsInvalidRequest ==
  \A i \in Slots :
    /\ (inv[i].pc # "idle" /\ inv[i].tool \notin Registered(inv[i].ep))
         => Refused(inv[i])
    /\ (/\ inv[i].pc # "idle"
        /\ inv[i].tool = "health_check"
        /\ inv[i].ep \in {"ext", "stdio"})
         => Refused(inv[i])

\* C8 witness: the keep-alive's health_check call was refused by the
\* extended server.
C8_Witness ==
  \E i \in Slots :
    /\ inv[i].ep = "ext"
    /\ inv[i].tool = "health_check"
    /\ Refused(inv[i])

\* the call sites of every entry point
AllSites ==
  UNION { Range(Calls(ep, tool)) : ep \in EntryPoints, tool \in RequestedNames }

\* C9: the parameter names an adapter passes a collaborator are names the
\* collaborator accepts, so every call site of the same collaborator passes
\* the same parameter names (and the same number of positional arguments) as
\* the call made.
C9_SameNamesPerCollaborator ==
  \A i \in Slots :
    \A k \in 1..Len(inv[i].calls) :
      \A site \in AllSites :
        site.collab = inv[i].calls[k].collab
          => /\ KwNames(site) = KwNames(inv[i].calls[k])
             /\ Len(site.pos) = Len(inv[i].calls[k].pos)

\* C10: search_flight_options passes the caller's departure_date to
\* search_flights as date, search_hotel_options passes the caller's
\* destination to search_hotels as location, and neither passes a name the
\* collaborator does not accept.
C10_FlightAndHotelNames ==
  \A i \in Slots :
    \A k \in 1..Len(inv[i].calls) :
      LET c == inv[i].calls[k]
      IN  /\ c.collab = "search_flights"
               => /\ <<"date", "departure_date">> \in c.kw
                  /\ KwNames(c) \subseteq Range(SignatureParams("search_flights"))
          /\ c.collab = "search_hotels"
               => /\ <<"location", "destination">> \in c.kw
                  /\ KwNames(c) \subseteq Range(SignatureParams("search_hotels"))

\* ---------------------------------------------------------------------- C11
Distinct(names) ==
  \A j, k \in 1..Len(names) : j # k => names[j] # names[k]

IsPrefix(a, b) ==
  Len(a) <= Len(b) /\ \A k \in 1..Len(a) : a[k] = b[k]

FourTools ==
  << "get_weather", "discover_places", "find_restaurants",
     "check_travel_requirements" >>

\* the entry points that were cut down to the essential tools
FinalServers == {"min", "stdio"}

\* C12: discovery on a server that was cut down to the essential tools lists
\* exactly the four tools get_weather, discover_places, find_restaurants and
\* check_travel_requirements, and none of health_check, plan_trip,
\* search_hotel_options, search_flight_options, validate is registered.
C12_FinalServerListsFourTools ==
  (server \in FinalServers /\ listing # << >>) =>
    /\ Len(listing) = 4
    /\ Range(listing) = Range(FourTools)
    /\ Range(registry) \cap {"health_check", "plan_trip", "search_hotel_options",
                              "search_flight_options", "validate"} = {}

\* ---------------------------------------------------------------------- C13
\* C13: once the server serves, the registry is the full ordered sequence of
\* the declared tools and stays so; every discovery, before or after any
\* successful or failed invocation, returns that same sequence.
C13_RegistryFixedAfterStartup ==
  /\ Started => registry = Registry(server)
  /\ (\E i \in Slots : inv[i].pc # "idle") => registry = Registry(server)
  /\ listing # << >> => listing = Registry(server)

\* a discovery answer stands beside an invocation that has failed
C13_Witness ==
  /\ listing # << >>
  /\ \E i \in Slots : /\ inv[i].pc = "done"
                       /\ inv[i].raised = "collaborator"
                       /\ inv[i].result.status = "Failure"

\* ---------------------------------------------------------------------- C14
\* the handler's frame is live: its parameters are bound and it has not ended
InFlight(v) == v.ran /\ v.pc \in {"invoking", "formatting"}

\* the default list objects a live frame has bound to its parameters: one
\* object per (tool, parameter), whichever invocation binds it
HeldDefaults(v) ==
  IF InFlight(v)
    THEN { << v.tool, p >> : p \in ListDefaults(v.ep, v.tool) \ v.args.has }
    ELSE {}

\* what an ended invocation's result must be, from its own fields alone
OwnOutcome(v) ==
  CASE v.raised = "collaborator" -> Raise(v.ep, v.tool, "Exception", <<"connection", "refused">>)
    [] v.raised \in {"none", "formatting"} /\ v.ran -> Format(v.ep, v.tool, v.args, v.data)
    [] OTHER -> v.result

\* C14: with several invocations in flight, each ended invocation's result
\* is decided by its own arguments and its own collaborator results, a
\* failed invocation leaves the registry as it was, and no two live
\* invocations hold the same mutable object (the list-valued defaults of
\* plan_trip and find_restaurants included).
C14_InvocationsShareNothing ==
  /\ registry = Registry(server)
  /\ \A i \in DOMAIN inv :
       (inv[i].pc = "done" /\ inv[i].tool \in Range(registry)) =>
         inv[i].result = OwnOutcome(inv[i])
  /\ \A i, j \in DOMAIN inv :
       i # j => HeldDefaults(inv[i]) \cap HeldDefaults(inv[j]) = {}

\* ---------------------------------------------------------------------- C15
\* the invocation's states in their order
Rank(pc) ==
  CASE pc = "idle" -> 0
    [] pc = "validating" -> 1
    [] pc = "invoking" -> 2
    [] pc = "formatting" -> 3
    [] pc = "done" -> 4

\* where the invocation stands agrees with what it has done so far:
\* validation before any call, every call returned before formatting
InOrder(v) ==
  /\ v.pc = "validating" => ~v.ran /\ v.calls = << >> /\ v.result = NoResult
  /\ v.pc = "invoking" =>
       /\ v.ran /\ v.result = NoResult /\ AllReturned(v)
       /\ Len(v.calls) < Len(Calls(v.ep, v.tool))
  /\ v.pc = "formatting" =>
       /\ v.ran /\ v.result = NoResult /\ AllReturned(v)
       /\ Len(v.calls) = Len(Calls(v.ep, v.tool))
  /\ (v.pc = "done" /\ v.result.status = "Success") =>
       /\ v.ran /\ AllReturned(v)
       /\ Len(v.calls) = Len(Calls(v.ep, v.tool))

\* C15: an invocation goes through Validating, Invoking and Formatting in
\* that order, never back, and what it ends in is exactly one of Success or
\* Failure.
C15_OrderedAndEndsInSuccessOrFailure ==
  \A i \in Slots :
    /\ InOrder(inv[i])
    /\ Ended(inv[i]) => inv[i].result.status \in {"Success", "Failure"}

\* ---------------------------------------------------------------------- C16
\* C16: an invocation whose pending collaborator call ran into a deadline,
\* or was cancelled, ends in Failure with kind Timeout.
C16_DeadlineIsTimeout ==
  \A i \in Slots :
    (inv[i].pc = "done" /\ inv[i].raised \in {"timeout", "cancelled"}) =>
      inv[i].result.status = "Failure" /\ inv[i].result.kind = "Timeout"

\* ---------------------------------------------------------------------- C17
\* C17: in check_travel_requirements, in every entry point, the first call is
\* the visa call and the safety call is made only second and only after the
\* visa call returned: a visa call that raised (or was cut short) is the
\* invocation's last call.
C17_VisaBeforeSafety ==
  \A i \in Slots :
    LET v == inv[i]
    IN  v.tool = "check_travel_requirements" =>
          /\ Len(v.calls) >= 1 => v.calls[1].collab = "check_visa_requirements"
          /\ \A k \in 1..Len(v.calls) :
               v.calls[k].collab = "get_safety_advisories" =>
                 /\ k = 2
                 /\ v.calls[1].collab = "check_visa_requirements"
                 /\ v.calls[1].outcome = "returned"
          /\ (Len(v.calls) >= 1 /\ v.calls[1].outcome # "returned") =>
               Len(v.calls) = 1

\* the stdio server's check_travel_requirements ended on a visa call that
\* raised, the safety call not made
C17_Witness ==
  \E i \in Slots :
    /\ inv[i].ep = "stdio" /\ inv[i].tool = "check_travel_requirements"
    /\ inv[i].pc = "done"
    /\ Len(inv[i].calls) = 1
    /\ inv[i].calls[1].collab = "check_visa_requirements"
    /\ inv[i].calls[1].outcome = "raised"

\* ---------------------------------------------------------------------- C18
Methods(sent) == [k \in 1..Len(sent) |-> sent[k].method]

SessionOrder ==
  << "initialize", "notifications/initialized", "tools/list", "tools/call" >>

\* C18: a session script sends tools/list or tools/call only after its
\* initialize request came back with status 200, and nothing at all after an
\* initialize that failed; test_fastmcp_session sends initialize,
\* notifications/initialized, tools/list, tools/call in that order, the
\* tools/call only after tools/list came back with status 200 and a tools list.
C18_InitializeFirst ==
  client.script \in SessionScripts =>
    /\ \A k \in 1..Len(client.sent) :
         client.sent[k].method \in {"tools/list", "tools/call"} =>
           /\ k > 1
           /\ client.sent[1].method = "initialize"
           /\ client.sent[1].status = 200
    /\ (Len(client.sent) >= 1 /\ client.sent[1].status # 200) =>
         Len(client.sent) = 1
    /\ client.script = "session" =>
         /\ IsPrefix(Methods(client.sent), SessionOrder)
         /\ Len(client.sent) = 4 =>
              client.sent[3].status = 200 /\ client.sent[3].tools

\* test_fastmcp_session has sent all four requests
C18_Witness ==
  /\ client.script = "session"
  /\ client.pc = "end"
  /\ Len(client.sent) = 4

\* ---------------------------------------------------------------------- C19
Called(sent) == { k \in 1..Len(sent) : sent[k].method = "tools/call" }

\* C19: the JSON-RPC tester sends tools/list first; a tools/call follows only
\* a discovery that succeeded, names only a discovered tool, and the success
\* count never exceeds the number of tools called.
C19_DiscoveryBeforeCalls ==
  client.script = "jsonrpc" =>
    /\ Len(client.sent) >= 1 => client.sent[1].method = "tools/list"
    /\ \A k \in Called(client.sent) :
         /\ k > 1
         /\ client.sent[1].status = 200
         /\ client.sent[k].name \in client.names
    /\ (Len(client.sent) >= 1 /\ client.sent[1].status # 200) =>
         Len(client.sent) = 1
    /\ client.success_count <= Cardinality(Called(client.sent))

\* the tester has reported after skipping a tool the server does not list
\* and calling one it lists
C19_Witness ==
  /\ client.script = "jsonrpc"
  /\ client.pc = "end"
  /\ "validate" \notin client.names
  /\ Called(client.sent) # {}
  /\ client.success_count >= 1

\* ---------------------------------------------------------------------- C20
\* C20: keep_alive started at any hour 0..23 with --hours H, H >= 1, enters
\* its loop, pings until H hours after the start, ends with 'Scheduled
\* duration completed' on the first pass that starts at or after that time
\* and then logs the final statistics.
C20_RunsForHours ==
  LET due == (ka.startHour + ka.hours) * TicksPerHour
  IN  /\ ka.pc # "crashed"
      /\ ka.pc = "loop" => ka.endAt = due
      /\ ka.pc = "ended" =>
           /\ ka.log = {"Scheduled duration completed", "FINAL STATISTICS"}
           /\ ka.iterStart >= due
           /\ ka.lastPing < due
\* ---------------------------------------------------------------------- C21
\* C21: a pass of the keep-alive loop that reached its sleep attempted
\* exactly one MCP health ping, and attempted the basic GET fallback exactly
\* when that ping reported failure; whatever the fallback ended in,
\* ping_count, success_count and error_count are what send_ping left: every
\* ping attempted is in error_count or success_count, and a ping counted in
\* ping_count is the only way into success_count.
C21_OnePingAndFallbackOnFailure ==
  /\ [](mon.script = "keep_alive" =>
          /\ mon.pc \in {"stats", "sleep"} =>
               /\ mon.pings = 1
               /\ mon.fallbacks = (IF mon.success THEN 0 ELSE 1)
          /\ mon.pc = "fallback" =>
               mon.pings = 1 /\ mon.fallbacks = 0 /\ ~mon.success
          /\ mon.success_count + mon.error_count = mon.sent
          /\ mon.success_count <= mon.ping_count
          /\ mon.ping_count <= mon.sent)
  /\ [][(mon.script = "keep_alive" /\ mon.pc = "fallback") =>
          /\ mon'.ping_count = mon.ping_count
          /\ mon'.success_count = mon.success_count
          /\ mon'.error_count = mon.error_count]_vars

\* a pass whose ping failed and whose fallback succeeded has reached its sleep
C21_Witness ==
  /\ mon.script = "keep_alive"
  /\ mon.pc = "sleep"
  /\ ~mon.success
  /\ mon.fallbacks = 1
  /\ mon.basic
  /\ mon.sent >= 2

\* ---------------------------------------------------------------------- C22
\* C22: the keep-alive loop emits its Stats line in a pass only when that
\* pass's ping brought the total number of pings to a positive multiple of
\* 10, so that after n pings attempted n \div 10 Stats lines were emitted.
C22_StatsEveryTenPings ==
  (mon.script = "keep_alive" /\ mon.pc = "sleep") =>
    /\ mon.stats =>
         /\ mon.counted
         /\ mon.ping_count > 0
         /\ mon.ping_count % KeepAliveStatsEvery = 0
    /\ mon.statsLines = mon.sent \div KeepAliveStatsEvery

\* ---------------------------------------------------------------------- C23
\* C23: after any sequence of send_ping calls ping_count equals
\* success_count + error_count, whichever way each ping ended.
C23_PingCountIsSuccessPlusError ==
  mon.script = "keep_alive" =>
    mon.ping_count = mon.success_count + mon.error_count

\* ---------------------------------------------------------------------- C24
\* C24: ping_server and send_basic_ping return True exactly when the request
\* was answered with a status in {200, 404, 301, 302, 307}; any other status
\* and any exception of the request give False, and the loop goes on to its
\* sleep: no exception of the request ends it.
C24_AliveExactlyOnListedStatus ==
  LET AliveReply(r) ==
        r.kind = "response" /\ r.status \in {200, 404, 301, 302, 307}
  IN  /\ mon.reply # NoReply =>
           /\ mon.basic = AliveReply(mon.reply)
           /\ mon.pc \in {"stats", "sleep", "ended"}
      /\ \A r \in NetReplies :
           /\ ping_server(r) = AliveReply(r)
           /\ send_basic_ping(r) = AliveReply(r)

\* the fallback of keep_alive was answered 404 and returned True
C24_Witness ==
  /\ mon.script = "keep_alive"
  /\ mon.reply = [kind |-> "response", status |-> 404]
  /\ mon.basic
  /\ mon.pc = "stats"
\* ---------------------------------------------------------------------- C25
\* an invocation of discover_places on the extended server that carried a
\* limit, whose search returned, and that has ended
PlacesLimitCase(v) ==
  /\ Ended(v)
  /\ v.ep = "ext"
  /\ v.tool = "discover_places"
  /\ "limit" \in v.args.has
  /\ AllReturned(v)

\* C25: discover_places(destination, activity_type, limit) on the extended
\* server lists exactly min(limit, n) of the n places the collaborator
\* returned, numbered 1.. in the collaborator's order, for every integer
\* limit, 0 and negative values included (for which no place is listed).
C25_ListsMinLimitPlaces ==
  \A i \in Slots :
    PlacesLimitCase(inv[i])
      => /\ inv[i].result.status = "Success"
         /\ inv[i].result.entries =
              FirstN(Max2(Min2(inv[i].args.num, inv[i].data.n), 0))
\* ---------------------------------------------------------------------- C26
\* an invocation of discover_places on the stdio or the minimal server that
\* has called search_places
PlacesCategoryCase(v) ==
  /\ Ended(v)
  /\ v.ep \in {"stdio", "min"}
  /\ v.tool = "discover_places"
  /\ Len(v.calls) = 1

\* C26: for the same discover_places request the stdio server and the
\* minimal HTTP server call search_places with the same category: the
\* category the serving entry point passed is the one the other entry
\* point's handler passes for the same arguments, and it is
\* 'tourist_attraction' whenever category is absent, null or empty.
C26_SameCategoryOnBothServers ==
  \A i \in Slots :
    PlacesCategoryCase(inv[i])
      => /\ inv[i].calls[1].category = MinCategory(inv[i].args)
         /\ inv[i].calls[1].category = StdioCategory(inv[i].args)
         /\ ("category" \notin inv[i].args.has
               \/ inv[i].args.category \in {"None", ""})
              => inv[i].calls[1].category = "tourist_attraction"
\* ---------------------------------------------------------------------- C27
\* two ended invocations of the same tool with equal arguments whose handler
\* bodies ran and whose collaborator calls ended alike (returned, raised,
\* timed out or cancelled) with equal results
SameRequest(v, w) ==
  /\ Ended(v)
  /\ Ended(w)
  /\ v.tool = w.tool
  /\ v.args = w.args
  /\ v.ran
  /\ w.ran
  /\ v.calls = w.calls
  /\ v.raised = w.raised
  /\ v.data = w.data

C28_WrongTokenRunsNothing ==
  /\ \A c \in ConfiguredTokens, t \in PresentedTokens :
       load_access_token(c, t) =
         (IF t = c
            THEN [token |-> t, client_id |-> "puch-client", scopes |-> {"*"}]
            ELSE NoAccessToken)
  /\ \A i \in DOMAIN inv :
       (inv[i].pc # "idle" /\ inv[i].bearer # auth.token)
         => /\ inv[i].pc = "done"
            /\ ~inv[i].ran
            /\ inv[i].calls = << >>
            /\ inv[i].result.status = "Failure"
            /\ inv[i].result.kind = "Unauthorized"
  /\ \A i \in DOMAIN inv :
       (inv[i].pc # "idle" /\ inv[i].bearer = auth.token)
         => inv[i].result.kind # "Unauthorized"

\* the minimal server, its provider installed, refused a request that
\* carried a token another configuration would accept
C28_Witness ==
  /\ server = "min"
  /\ auth.provider = "installed"
  /\ inv[1].pc = "done"
  /\ inv[1].bearer \in ConfiguredTokens
  /\ inv[1].bearer # auth.token
  /\ inv[1].result.kind = "Unauthorized"
  /\ inv[1].calls = << >>
====
